---- MODULE Spec2Model ----
(***************************************************************************)
(* mikanbako: a concurrent bulk downloader (src/src/main.rs).              *)
(*                                                                         *)
(* main() builds the list of URLs, spawns `connections` worker tasks that  *)
(* share one atomic counter, and joins them.  Each worker loops: acquire   *)
(* (and at once drop) a semaphore permit, fetch_add the counter, stop when *)
(* the index is past the list, otherwise download(url), then advance the   *)
(* main progress bar.  download() sends the request, resolves a file name, *)
(* opens the file with create/truncate and copies the body chunk by chunk  *)
(* with File::write, advancing the task's bar by the chunk length.         *)
(*                                                                         *)
(* Spec and FairSpec are the engine: the workers of one run of main().     *)
(* FnSpec applies the functions main() and download() call (the two list   *)
(* builders, the file name resolution, gen_filename) to bounded inputs.    *)
(* Text is a sequence of bytes; the comments give it as text.              *)
(***************************************************************************)
EXTENDS Integers, Sequences, FiniteSets, TLC

(* ------------------------------ bounds -------------------------------- *)

\* Largest size of a run: the number of workers plus the number of URLs in
\* the download list.
MaxSize == 4

\* Largest number of bytes a response body delivers.
MaxBody == 2

\* Largest number of gen_filename() calls of one run that are compared.
MaxCalls == 2

\* Largest number of bytes of an enumerated list file.
MaxFile == 3

\* Largest of the small --start and --end values (with -1, 9 and 10).
MaxRange == 2

(* ------------------------- program constants -------------------------- *)

\* main.rs:46  `if connections <= 10`
ConnectionLimit == 10

\* main.rs:49  the fallback when the request is above the limit
DefaultConnections == 2

\* main.rs:202  "\r"
CR == 13

\* main.rs:202  "\n"
LF == 10

\* main.rs:232  the separator of the segments path_segments() yields
Slash == 47

\* main.rs:232  the escape character percent_decode_str() decodes
Percent == 37

\* main.rs:182  the sign i.to_string() writes for a negative i64
Minus == 45

\* main.rs:233  U+FFFD, which decode_utf8_lossy() puts for invalid bytes
ReplacementChar == 65533

\* main.rs:182  the placeholder "{}"
Placeholder == << 123, 125 >>

\* "http://h": the scheme and the host of the addresses that can be fetched
HttpH == << 104, 116, 116, 112, 58, 47, 47, 104 >>

(* -------------------------------- text -------------------------------- *)

HasPrefix(s, p) == Len(s) >= Len(p) /\ SubSeq(s, 1, Len(p)) = p

Drop(s, n) == SubSeq(s, n + 1, Len(s))

Last(s) == s[Len(s)]

\* anyhow::Result: Ok(v) and Err(_)
Ok(v) == [ ok |-> TRUE, val |-> v ]

Err == [ ok |-> FALSE, val |-> << >> ]

\* Option: Some(v) and None
Some(v) == [ some |-> TRUE, val |-> v ]

None == [ some |-> FALSE, val |-> << >> ]

RECURSIVE ReplaceAll(_, _, _)
\* main.rs:182, 202  str::replace(from, to): every match, left to right
ReplaceAll(s, from, to) ==
    IF s = << >> THEN << >>
    ELSE IF HasPrefix(s, from)
         THEN to \o ReplaceAll(Drop(s, Len(from)), from, to)
         ELSE << Head(s) >> \o ReplaceAll(Tail(s), from, to)

RECURSIVE Digits(_)
\* The decimal digits of n >= 0.
Digits(n) ==
    IF n < 10 THEN << 48 + n >>
    ELSE Digits(n \div 10) \o << 48 + (n % 10) >>

\* main.rs:182, 282  to_string() of an integer
to_string(i) == IF i < 0 THEN << Minus >> \o Digits(-i) ELSE Digits(i)

RECURSIVE Split(_, _)
\* str::split(sep): the pieces between the separators, empty ones included
Split(s, sep) ==
    IF \A k \in 1 .. Len(s) : s[k] # sep THEN << s >>
    ELSE LET k == CHOOSE k \in 1 .. Len(s) :
                      s[k] = sep /\ \A m \in 1 .. (k - 1) : s[m] # sep
         IN  << SubSeq(s, 1, k - 1) >> \o Split(Drop(s, k), sep)

\* The value of a hexadecimal digit, -1 for any other byte.
HexVal(b) ==
    IF b \in 48 .. 57 THEN b - 48
    ELSE IF b \in 65 .. 70 THEN b - 55
    ELSE IF b \in 97 .. 102 THEN b - 87
    ELSE -1

RECURSIVE percent_decode_str(_)
\* main.rs:232  percent_decode_str(): %XX becomes the byte XX, a % that is
\* not followed by two hexadecimal digits stays
percent_decode_str(s) ==
    IF s = << >> THEN << >>
    ELSE IF Head(s) = Percent /\ Len(s) >= 3 /\ HexVal(s[2]) >= 0 /\ HexVal(s[3]) >= 0
         THEN << 16 * HexVal(s[2]) + HexVal(s[3]) >> \o percent_decode_str(Drop(s, 3))
         ELSE << Head(s) >> \o percent_decode_str(Tail(s))

RECURSIVE decode_utf8_lossy(_)
\* main.rs:233  decode_utf8_lossy().to_string(): the characters of the
\* bytes, U+FFFD for a byte that starts no valid sequence.  One- and
\* two-byte sequences are decoded; the inputs hold no longer ones.
decode_utf8_lossy(s) ==
    IF s = << >> THEN << >>
    ELSE IF Head(s) < 128 THEN << Head(s) >> \o decode_utf8_lossy(Tail(s))
    ELSE IF Head(s) \in 194 .. 223 /\ Len(s) >= 2 /\ s[2] \in 128 .. 191
         THEN << (Head(s) - 192) * 64 + (s[2] - 128) >> \o decode_utf8_lossy(Drop(s, 2))
    ELSE << ReplacementChar >> \o decode_utf8_lossy(Tail(s))

(* ------------------------------ inputs -------------------------------- *)

\* An address is its text.  "http://h/a" and "http://h/d/":
URLS == { HttpH \o << 47, 97 >>, HttpH \o << 47, 100, 47 >> }

RECURSIVE SeqsUpTo(_, _)
SeqsUpTo(S, n) ==
    IF n = 0 THEN { <<>> }
    ELSE LET shorter == SeqsUpTo(S, n - 1)
         IN  shorter \cup { Append(s, x) : s \in { t \in shorter : Len(t) = n - 1 }, x \in S }

\* The download lists main() can be started with.
TargetLists == SeqsUpTo(URLS, MaxSize)

\* Values of --connections: a negative one (not a usize), the in-range ones,
\* and one above the limit.
ConnectionArgs == {-1} \cup (0 .. MaxSize) \cup {ConnectionLimit + 1}

(* ------------------------------ state --------------------------------- *)

VARIABLES
    requested,    \* the --connections argument
    connections,  \* main.rs:46  the effective number of connections
    urls,         \* main.rs:51  the download list
    mainPc,       \* where main() is: "start", "rejected", "join", "finished"
    permits,      \* main.rs:52  free permits of the semaphore
    counter,      \* main.rs:53  the shared AtomicUsize
    pc,           \* worker -> its position in the loop of main.rs:80-97
    index,        \* worker -> the index of its last fetch_add (-1: none yet)
    bar,          \* worker -> position of the task bar of main.rs:89
    handle,       \* worker -> the file download() has open (name, offset)
    downloads,    \* number of download() calls made so far
    invoked,      \* list index (0-based) -> download() calls made for it
    result,       \* list index -> "none", "ok", "err": what download() returned
    main_bar,     \* position of the main progress bar
    incs,         \* list index -> main_bar.inc(1) calls made for it
    files,        \* file name -> content, for the files that exist
    fn            \* FnSpec: the calls made, each with its arguments and result

vars == << requested, connections, urls, mainPc, permits, counter, pc, index,
           bar, handle, downloads, invoked, result, main_bar, incs, files, fn >>

(* ----------------------------- helpers -------------------------------- *)

\* main.rs:294-299  v.parse::<usize>() succeeds
validate_natural_number(v) == v >= 0

\* A fallback to one connection instead of the default of two.
EffectiveFallbackOne(c) == IF c <= ConnectionLimit THEN c ELSE 1

\* main.rs:46-50
EffectiveConnections(c) == IF c <= ConnectionLimit THEN c ELSE DefaultConnections

\* A semaphore created without permits.
NoPermits(c) == 0

\* main.rs:52  Semaphore::new(connections)
InitialPermits(c) == c

\* A spawn loop that runs once too often (0..=connections).
SpawnOneMore(c) == 1 .. (c + 1)

\* main.rs:71  for _ in 0..connections { ... tokio::spawn ... }
SpawnedWorkers(c) == 1 .. c

Workers == DOMAIN pc

Indices == 0 .. (Len(urls) - 1)

\* main.rs:87  &urls[index]
UrlAt(i) == urls[i + 1]

\* A plain load where the fetch_add should be: the counter stays put.
FetchAddStale(c) == c

\* main.rs:83  counter.fetch_add(1, ..): the new value of the counter
FetchAdd(c) == c + 1

\* The bound test written with > for >=.
ExhaustedOffByOne(i, len) == i > len

\* main.rs:84  `if index >= urls.len() { break; }`
Exhausted(i, len) == i >= len

\* main.rs:219  client.get(url).send() can succeed: the text is an http
\* URL.  Any other text is refused before a request is made: it is no URL
\* (a relative one, the empty text) or its scheme is not http(s).
IsHttp(url) ==
    /\ HasPrefix(url, HttpH)
    /\ (Len(url) = Len(HttpH) \/ url[Len(HttpH) + 1] = Slash)

\* main.rs:231  res.url(): the URL of the response; the servers modelled
\* answer under the URL that was asked for.
ResponseUrl(url) == url

\* The path of an http URL; the URL parser makes an empty path "/".
Path(url) ==
    IF Drop(url, Len(HttpH)) = << >> THEN << Slash >> ELSE Drop(url, Len(HttpH))

\* main.rs:231  Url::path_segments(): the path after its leading "/" split
\* at "/"; None for a URL that cannot be a base (no http URL is one).
path_segments(url) ==
    IF IsHttp(url) THEN Some(Split(Tail(Path(url)), Slash)) ELSE None

\* Whole seconds where gen_filename takes milliseconds.
as_secs(nanos) == nanos \div 1000000000

\* main.rs:280  Duration::as_millis()
as_millis(nanos) == nanos \div 1000000

\* main.rs:278-283  gen_filename() called when the clock shows `now`
\* nanoseconds since the epoch; duration_since fails before the epoch.
gen_filename(now) ==
    IF now < 0 THEN Err ELSE Ok(to_string(as_millis(now)))

\* main.rs:232-233  the Some arm: the last path segment, percent-decoded
Filename(url) ==
    decode_utf8_lossy(percent_decode_str(Last(path_segments(ResponseUrl(url)).val)))

\* main.rs:231-235  `let filename = match res.url().path_segments() {..}`
FilenameOrGenerated(url, now) ==
    IF path_segments(ResponseUrl(url)).some THEN Ok(Filename(url))
    ELSE gen_filename(now)

\* main.rs:236-238  open(output_dir.join(filename)) can succeed: the empty
\* name is the output directory itself, which cannot be opened for writing.
CanOpen(name) == name # << >>

\* The k-th byte of the body served for list index i.
BodyByte(i, k) == << i, k >>

\* The first n bytes of the body served for list index i.
Body(i, n) == [ k \in 1 .. n |-> BodyByte(i, k) ]

\* A byte of a hole left by writing past the end of a file.
Hole == << -1, 0 >>

ClosedHandle == [ open |-> FALSE, name |-> << >>, pos |-> 0 ]

\* download() returns and its local `file` stays open (a leaked handle).
KeepFile(h) == h

\* download() returns: its local `file` goes out of scope and is closed.
DropFile(h) == ClosedHandle

\* main.rs:237-238  OpenOptions create(true).write(true).truncate(true)
OpenTruncate(fs, name) ==
    [ f \in (DOMAIN fs) \cup {name} |-> IF f = name THEN << >> ELSE fs[f] ]

\* main.rs:252  file.write(&chunk): n bytes of chunk land at offset pos
FileWrite(content, pos, chunk, n) ==
    LET newLen == IF pos + n > Len(content) THEN pos + n ELSE Len(content)
    IN  [ k \in 1 .. newLen |->
            IF k > pos /\ k <= pos + n THEN chunk[k - pos]
            ELSE IF k <= Len(content) THEN content[k]
            ELSE Hole ]

\* main.rs:252  the byte counts File::write may report for a chunk of len
\* bytes: a write is one attempt and may be short.
WriteCounts(len) == 1 .. len

\* main.rs:254  bar.inc(chunk.len()): the new position of the task bar
BarInc(pos, len) == pos + len

\* An error of download() that ends the worker (a `?` or a break).
AfterErrorBreak == "done"

\* An error of download() that skips main_bar.inc(1) (a `continue`).
AfterErrorContinue == "acquire"

\* main.rs:91-93  `if let Err(err) = download(..) { eprintln!(..) }`: where
\* the worker goes on after download() returned an error
AfterError == "inc"

(* --------------------------- list builders ---------------------------- *)

\* A loop over start..end, which leaves out the last number.
create_sequential_exclusive(url, start, end) ==
    IF start > end THEN Err
    ELSE Ok([ j \in 1 .. (end - start) |->
                ReplaceAll(url, Placeholder, to_string(start + j - 1)) ])

\* main.rs:171-187  Err when start > end, else the url with every "{}"
\* replaced by i, for i in start..=end
create_sequential_download_list(url, start, end) ==
    IF start > end THEN Err
    ELSE Ok([ j \in 1 .. (end - start + 1) |->
                ReplaceAll(url, Placeholder, to_string(start + j - 1)) ])

\* main.rs:197  reader.read_line(&mut line): the bytes up to and including
\* the next "\n", or all that is left
ReadLine(rest) ==
    IF \E k \in 1 .. Len(rest) : rest[k] = LF
    THEN SubSeq(rest, 1, CHOOSE k \in 1 .. Len(rest) :
                            rest[k] = LF /\ \A m \in 1 .. (k - 1) : rest[m] # LF)
    ELSE rest

RECURSIVE ReadLoop(_, _)
\* main.rs:195-204  the loop: it ends when read_line reads 0 bytes; a line
\* that is not empty as read is pushed with every "\r" and "\n" removed
ReadLoop(rest, files_) ==
    LET line == ReadLine(rest)
    IN  IF Len(line) = 0 THEN files_
        ELSE ReadLoop(Drop(rest, Len(line)),
                      IF Len(line) # 0
                      THEN Append(files_, ReplaceAll(ReplaceAll(line, << CR >>, << >>),
                                                     << LF >>, << >>))
                      ELSE files_)

\* main.rs:190-207  Err when the file cannot be opened
create_download_list_from_file(file) ==
    IF ~file.exists THEN Err ELSE Ok(ReadLoop(file.content, << >>))

(* ------------------------------- Init --------------------------------- *)

Init ==
    /\ requested \in ConnectionArgs
    /\ urls \in TargetLists
    /\ EffectiveConnections(requested) + Len(urls) <= MaxSize
    /\ IF validate_natural_number(requested)
       THEN /\ connections = EffectiveConnections(requested)
            /\ mainPc = "join"
       ELSE /\ connections = 0
            /\ mainPc = "rejected"
    /\ permits = InitialPermits(connections)
    /\ counter = 0
    /\ pc = [ w \in SpawnedWorkers(connections) |-> "acquire" ]
    /\ index = [ w \in SpawnedWorkers(connections) |-> -1 ]
    /\ bar = [ w \in SpawnedWorkers(connections) |-> 0 ]
    /\ handle = [ w \in SpawnedWorkers(connections) |-> ClosedHandle ]
    /\ downloads = 0
    /\ invoked = [ i \in Indices |-> 0 ]
    /\ result = [ i \in Indices |-> "none" ]
    /\ main_bar = 0
    /\ incs = [ i \in Indices |-> 0 ]
    /\ files = << >>
    /\ fn = << >>

(* ------------------------------ actions ------------------------------- *)

\* main.rs:81  semaphore.acquire().await
Acquire(w) ==
    /\ pc[w] = "acquire"
    /\ permits > 0
    /\ permits' = permits - 1
    /\ pc' = [pc EXCEPT ![w] = "permit"]
    /\ UNCHANGED << fn, requested, connections, urls, mainPc, counter, index, bar,
                    handle, downloads, invoked, result, main_bar, incs, files >>

\* main.rs:81  `let _ = ...;` the permit is dropped at the end of the statement
DropPermit(w) ==
    /\ pc[w] = "permit"
    /\ permits' = permits + 1
    /\ pc' = [pc EXCEPT ![w] = "claim"]
    /\ UNCHANGED << fn, requested, connections, urls, mainPc, counter, index, bar,
                    handle, downloads, invoked, result, main_bar, incs, files >>

\* main.rs:83-86  fetch_add past the end of the list: break
ClaimNone(w) ==
    /\ pc[w] = "claim"
    /\ Exhausted(counter, Len(urls))
    /\ index' = [index EXCEPT ![w] = counter]
    /\ counter' = FetchAdd(counter)
    /\ pc' = [pc EXCEPT ![w] = "done"]
    /\ UNCHANGED << fn, requested, connections, urls, mainPc, permits, bar, handle,
                    downloads, invoked, result, main_bar, incs, files >>

\* main.rs:83-91  fetch_add inside the list: a new spinner and download(url)
Claim(w) ==
    /\ pc[w] = "claim"
    /\ ~Exhausted(counter, Len(urls))
    /\ index' = [index EXCEPT ![w] = counter]
    /\ counter' = FetchAdd(counter)
    /\ bar' = [bar EXCEPT ![w] = 0]
    /\ downloads' = downloads + 1
    /\ invoked' = [invoked EXCEPT ![counter] = @ + 1]
    /\ pc' = [pc EXCEPT ![w] = "download"]
    /\ UNCHANGED << fn, requested, connections, urls, mainPc, permits, handle,
                    result, main_bar, incs, files >>

\* main.rs:219-225  client.get(url).send() fails
SendErr(w) ==
    /\ pc[w] = "download"
    /\ result' = [result EXCEPT ![index[w]] = "err"]
    /\ pc' = [pc EXCEPT ![w] = AfterError]
    /\ UNCHANGED << fn, requested, connections, urls, mainPc, permits, counter, index,
                    bar, handle, downloads, invoked, main_bar, incs, files >>

\* main.rs:236-238  the request succeeded and open(filepath) fails; it always
\* fails for the empty file name, which names the output directory itself
OpenErr(w) ==
    /\ pc[w] = "download"
    /\ IsHttp(UrlAt(index[w]))
    /\ result' = [result EXCEPT ![index[w]] = "err"]
    /\ pc' = [pc EXCEPT ![w] = AfterError]
    /\ UNCHANGED << fn, requested, connections, urls, mainPc, permits, counter, index,
                    bar, handle, downloads, invoked, main_bar, incs, files >>

\* main.rs:219-248  the request succeeded and the file is created or truncated
OpenOk(w) ==
    /\ pc[w] = "download"
    /\ IsHttp(UrlAt(index[w]))
    /\ CanOpen(Filename(UrlAt(index[w])))
    /\ files' = OpenTruncate(files, Filename(UrlAt(index[w])))
    /\ handle' = [handle EXCEPT ![w] =
                    [ open |-> TRUE, name |-> Filename(UrlAt(index[w])), pos |-> 0 ]]
    /\ pc' = [pc EXCEPT ![w] = "stream"]
    /\ UNCHANGED << fn, requested, connections, urls, mainPc, permits, counter, index,
                    bar, downloads, invoked, result, main_bar, incs >>

\* main.rs:249-254  the stream yields the next len bytes of the body as one
\* chunk, File::write writes n of them at the handle's offset, and the bar
\* advances by len
StreamChunk(w, len, n) ==
    LET i == index[w]
        chunk == [ k \in 1 .. len |-> BodyByte(i, bar[w] + k) ]
    IN  /\ pc[w] = "stream"
        /\ bar[w] + len <= MaxBody
        /\ n \in WriteCounts(len)
        /\ files' = [files EXCEPT ![handle[w].name] =
                        FileWrite(@, handle[w].pos, chunk, n)]
        /\ handle' = [handle EXCEPT ![w].pos = @ + n]
        /\ bar' = [bar EXCEPT ![w] = BarInc(@, len)]
        /\ UNCHANGED << fn, requested, connections, urls, mainPc, permits, counter,
                        pc, index, downloads, invoked, result, main_bar, incs >>

\* main.rs:249-252  the stream yields a chunk and File::write fails
WriteErr(w) ==
    /\ pc[w] = "stream"
    /\ bar[w] < MaxBody
    /\ handle' = [handle EXCEPT ![w] = DropFile(@)]
    /\ result' = [result EXCEPT ![index[w]] = "err"]
    /\ pc' = [pc EXCEPT ![w] = AfterError]
    /\ UNCHANGED << fn, requested, connections, urls, mainPc, permits, counter, index,
                    bar, downloads, invoked, main_bar, incs, files >>

\* main.rs:249-250  the stream yields an error
StreamErr(w) ==
    /\ pc[w] = "stream"
    /\ handle' = [handle EXCEPT ![w] = DropFile(@)]
    /\ result' = [result EXCEPT ![index[w]] = "err"]
    /\ pc' = [pc EXCEPT ![w] = AfterError]
    /\ UNCHANGED << fn, requested, connections, urls, mainPc, permits, counter, index,
                    bar, downloads, invoked, main_bar, incs, files >>

\* main.rs:249, 258-260  the stream ends: bar.finish(), Ok(())
StreamEnd(w) ==
    /\ pc[w] = "stream"
    /\ handle' = [handle EXCEPT ![w] = DropFile(@)]
    /\ result' = [result EXCEPT ![index[w]] = "ok"]
    /\ pc' = [pc EXCEPT ![w] = "inc"]
    /\ UNCHANGED << fn, requested, connections, urls, mainPc, permits, counter, index,
                    bar, downloads, invoked, main_bar, incs, files >>

\* main.rs:95-97  bars.remove(&bar); main_bar.inc(1); the bar is dropped and
\* the loop starts over
MainBarInc(w) ==
    /\ pc[w] = "inc"
    /\ main_bar' = main_bar + 1
    /\ incs' = [incs EXCEPT ![index[w]] = @ + 1]
    /\ bar' = [bar EXCEPT ![w] = 0]
    /\ pc' = [pc EXCEPT ![w] = "acquire"]
    /\ UNCHANGED << fn, requested, connections, urls, mainPc, permits, counter, index,
                    handle, downloads, invoked, result, files >>

\* main.rs:102-106  every handle has been awaited; main_bar.finish()
Join ==
    /\ mainPc = "join"
    /\ \A w \in Workers : pc[w] = "done"
    /\ mainPc' = "finished"
    /\ UNCHANGED << fn, requested, connections, urls, permits, counter, pc, index,
                    bar, handle, downloads, invoked, result, main_bar, incs, files >>

\* One step of worker w (main.rs:80-97).
WorkerStep(w) ==
    \/ Acquire(w)
    \/ DropPermit(w)
    \/ ClaimNone(w)
    \/ Claim(w)
    \/ SendErr(w)
    \/ OpenErr(w)
    \/ OpenOk(w)
    \/ \E len \in 1 .. MaxBody : \E n \in 1 .. len : StreamChunk(w, len, n)
    \/ WriteErr(w)
    \/ StreamErr(w)
    \/ StreamEnd(w)
    \/ MainBarInc(w)

Next ==
    \/ \E w \in Workers : Acquire(w)
    \/ \E w \in Workers : DropPermit(w)
    \/ \E w \in Workers : ClaimNone(w)
    \/ \E w \in Workers : Claim(w)
    \/ \E w \in Workers : SendErr(w)
    \/ \E w \in Workers : OpenErr(w)
    \/ \E w \in Workers : OpenOk(w)
    \/ \E w \in Workers : \E len \in 1 .. MaxBody : \E n \in 1 .. len : StreamChunk(w, len, n)
    \/ \E w \in Workers : WriteErr(w)
    \/ \E w \in Workers : StreamErr(w)
    \/ \E w \in Workers : StreamEnd(w)
    \/ \E w \in Workers : MainBarInc(w)
    \/ Join

Spec == Init /\ [][Next]_vars

\* Workers are tokio tasks on a fair scheduler and main() awaits them: as
\* long as some task can take a step, one of them does.  (Fairness for each
\* single worker implies this.)
FairSpec == Spec /\ WF_vars(Next)

(* ----------------------- the functions, applied ----------------------- *)

\* Addresses download() is called with: "http://h" with the paths "" (no
\* path), "/a", "/a/b", "/d/", "/%41", "/n%C3%AF", "/%FF", "/%4"; and the
\* texts "data:x" (a URL that cannot be a base) and "" (no URL).
FnUrls ==
    { HttpH \o p : p \in { << >>,
                           << 47, 97 >>,
                           << 47, 97, 47, 98 >>,
                           << 47, 100, 47 >>,
                           << 47, 37, 52, 49 >>,
                           << 47, 110, 37, 67, 51, 37, 65, 70 >>,
                           << 47, 37, 70, 70 >>,
                           << 47, 37, 52 >> } }
    \cup { << 100, 97, 116, 97, 58, 120 >>, << >> }

\* Clock readings in nanoseconds since the epoch: one before the epoch, two
\* in the millisecond 1998 and one in the millisecond 1999.
Instants == { -1, 1998000000, 1998500000, 1999000000 }

\* "A\r\n", "\n", "B\n"
ThreeLines == << 65, CR, LF, LF, 66, LF >>

\* List files: a missing one, every content of up to MaxFile bytes out of
\* "A", "\r", "\n", and the three lines above.
ListFiles ==
    { [ exists |-> FALSE, content |-> << >> ] }
    \cup { [ exists |-> TRUE, content |-> c ] :
              c \in SeqsUpTo({ 65, CR, LF }, MaxFile) \cup { ThreeLines } }

\* --url templates: "http://h/{}", "http://h/a", "http://h/{}-{}"
Templates ==
    { HttpH \o p : p \in { << 47, 123, 125 >>,
                           << 47, 97 >>,
                           << 47, 123, 125, 45, 123, 125 >> } }

\* --start and --end values (validate_number accepts every i64)
Numbers == (-1 .. MaxRange) \cup { 9, 10 }

\* The last call made.
LastCall == fn[Len(fn)]

\* The state before main() has built its list: the default --connections.
FnInit ==
    /\ requested = DefaultConnections
    /\ connections = 0
    /\ urls = << >>
    /\ mainPc = "start"
    /\ permits = 0
    /\ counter = 0
    /\ pc = << >>
    /\ index = << >>
    /\ bar = << >>
    /\ handle = << >>
    /\ downloads = 0
    /\ invoked = << >>
    /\ result = << >>
    /\ main_bar = 0
    /\ incs = << >>
    /\ files = << >>
    /\ fn = << >>

\* main.rs:22-99  what main() does with the result of its list builder: on
\* Err the `?` returns from main; on Ok it goes on with the list and spawns
\* the workers
MainStart(ret) ==
    LET n == IF ret.ok THEN EffectiveConnections(requested) ELSE 0
        list == IF ret.ok THEN ret.val ELSE << >>
        ids == 0 .. (Len(list) - 1)
    IN  /\ urls' = list
        /\ mainPc' = IF ret.ok THEN "join" ELSE "rejected"
        /\ connections' = n
        /\ permits' = InitialPermits(n)
        /\ pc' = [ w \in SpawnedWorkers(n) |-> "acquire" ]
        /\ index' = [ w \in SpawnedWorkers(n) |-> -1 ]
        /\ bar' = [ w \in SpawnedWorkers(n) |-> 0 ]
        /\ handle' = [ w \in SpawnedWorkers(n) |-> ClosedHandle ]
        /\ invoked' = [ i \in ids |-> 0 ]
        /\ result' = [ i \in ids |-> "none" ]
        /\ incs' = [ i \in ids |-> 0 ]
        /\ UNCHANGED << requested, counter, downloads, main_bar, files >>

\* main.rs:22-26  main() run with --url, --start and --end
CallSequential(url, start, end) ==
    LET ret == create_sequential_download_list(url, start, end)
    IN  /\ mainPc = "start"
        /\ fn' = << [ op |-> "sequential", url |-> url, start |-> start,
                      end |-> end, ret |-> ret ] >>
        /\ MainStart(ret)

\* main.rs:27-29  main() run with --list
CallListFromFile(file) ==
    LET ret == create_download_list_from_file(file)
    IN  /\ mainPc = "start"
        /\ fn' = << [ op |-> "list", file |-> file, ret |-> ret ] >>
        /\ MainStart(ret)

\* main.rs:219-235  download(url) up to the file name, the clock showing
\* `now`, applied on its own: send() fails for a text that is no http URL
CallDownload(url, now) ==
    /\ mainPc = "start"
    /\ fn' = << [ op |-> "download", url |-> url, now |-> now, sent |-> IsHttp(url),
                  ret |-> IF IsHttp(url) THEN FilenameOrGenerated(url, now) ELSE Err ] >>
    /\ UNCHANGED << requested, connections, urls, mainPc, permits, counter, pc,
                    index, bar, handle, downloads, invoked, result, main_bar,
                    incs, files >>

\* main.rs:278-283  gen_filename() when the clock shows `now`, applied on
\* its own; up to MaxCalls calls in a row are kept
CallGenFilename(now) ==
    LET call == [ op |-> "gen_filename", now |-> now, ret |-> gen_filename(now) ]
    IN  /\ mainPc = "start"
        /\ fn' = IF Len(fn) < MaxCalls /\ \A k \in 1 .. Len(fn) : fn[k].op = "gen_filename"
                 THEN Append(fn, call)
                 ELSE << call >>
        /\ UNCHANGED << requested, connections, urls, mainPc, permits, counter, pc,
                        index, bar, handle, downloads, invoked, result, main_bar,
                        incs, files >>

FnNext ==
    \/ \E url \in Templates : \E start, end \in Numbers : CallSequential(url, start, end)
    \/ \E file \in ListFiles : CallListFromFile(file)
    \/ \E url \in FnUrls : \E now \in Instants : CallDownload(url, now)
    \/ \E now \in Instants : CallGenFilename(now)

FnSpec == FnInit /\ [][FnNext]_vars

(* ------------------------------ claims -------------------------------- *)

AllWorkersDone == \A w \in Workers : pc[w] = "done"

\* The list indices whose download() has been called and has not returned.
InProgress == { i \in Indices : invoked[i] > 0 /\ result[i] = "none" }

\* The workers that are between the call of download() and main_bar.inc(1).
Busy == { w \in Workers : pc[w] \in {"download", "stream", "inc"} }

\* C1: no list index is ever handed to download() twice, no two workers
\* work on the same index, and once every worker of a run with at least one
\* worker has terminated, download() has been called exactly once for each
\* index of the list: Len(urls) calls in all, whatever the calls returned.
C1_EachIndexOnce ==
    /\ \A i \in Indices : invoked[i] <= 1
    /\ downloads <= Len(urls)
    /\ \A v, w \in Busy : v # w => index[v] # index[w]
    /\ (connections >= 1 /\ AllWorkersDone) =>
          /\ downloads = Len(urls)
          /\ \A i \in Indices : invoked[i] = 1

\* C1 witness: two workers have terminated after a list of two URLs, one of
\* which failed.
C1_Witness ==
    /\ connections = 2
    /\ Len(urls) = 2
    /\ AllWorkersDone
    /\ result[0] = "err"
    /\ result[1] = "ok"

\* C2: once the workers have terminated, every index after an index whose
\* download() returned an error has had its own download() called and
\* returned: an error neither ends the worker that met it nor any other.
C2_FailureIsolated ==
    AllWorkersDone =>
        \A k \in Indices : result[k] = "err" =>
            \A j \in Indices : j > k => (invoked[j] = 1 /\ result[j] # "none")

\* C2 witness: a finished run in which two indices failed and a later one
\* was still transferred.
C2_Witness ==
    /\ AllWorkersDone
    /\ Len(urls) = 3
    /\ result[0] = "err"
    /\ result[1] = "err"
    /\ result[2] = "ok"

\* C3: the main bar never exceeds Len(urls), and when main() reaches
\* main_bar.finish() it has been advanced once for every index of the list.
C3_AggregateReachesM ==
    /\ main_bar <= Len(urls)
    /\ mainPc = "finished" =>
          /\ main_bar = Len(urls)
          /\ \A i \in Indices : incs[i] = 1

\* The statement of C3 for the runs that have a worker (it holds).
C3_WithAWorker == connections >= 1 => C3_AggregateReachesM

\* C4: with at least one worker, fair scheduling and transfers that return,
\* main() reaches main_bar.finish() with every worker terminated; and a
\* worker at semaphore.acquire() always finds a free permit, so none waits.
C4_PoolReturns ==
    /\ (connections >= 1) ~> (mainPc = "finished" /\ AllWorkersDone)
    /\ [](\A w \in Workers : pc[w] = "acquire" => permits > 0)

\* C4 witness: main() has finished a run of two workers in which a transfer
\* failed and a later one succeeded.
C4_Witness ==
    /\ mainPc = "finished"
    /\ connections = 2
    /\ Len(urls) = 2
    /\ result[0] = "err"
    /\ result[1] = "ok"
    /\ main_bar = 2

\* C5: exactly `connections` workers exist, and at most `connections`
\* download() calls are in progress.
C5_AtMostNTransfers ==
    /\ Cardinality(Workers) = connections
    /\ Cardinality(InProgress) <= connections

\* C5 witness: as many download() calls are in progress as there are
\* workers, two of them streaming at the same time.
C5_Witness ==
    /\ connections = 2
    /\ Cardinality(InProgress) = connections
    /\ \E v, w \in Workers : v # w /\ pc[v] = "stream" /\ pc[w] = "stream"

\* C6: when main() finishes a run whose --connections value passed
\* validate_natural_number and whose list is not empty, there was at least
\* one worker and every index of the list has been claimed.
C6_AtLeastOneWorker ==
    (validate_natural_number(requested) /\ Len(urls) > 0 /\ mainPc = "finished") =>
        /\ connections >= 1
        /\ \A i \in Indices : invoked[i] >= 1

\* C7 (state part): with an empty list no download() is ever called, no
\* task bar and not the main bar is advanced, no file is touched, and a
\* worker is done as soon as it has made its first fetch_add.
C7_EmptyListIdle ==
    Len(urls) = 0 =>
        /\ downloads = 0
        /\ main_bar = 0
        /\ files = << >>
        /\ \A w \in Workers :
              /\ bar[w] = 0
              /\ pc[w] \in {"acquire", "permit", "claim", "done"}
              /\ index[w] # -1 => pc[w] = "done"
              /\ index[w] < connections

\* C7: with an empty list the run stays idle as above, and main() reaches
\* main_bar.finish().
C7_EmptyList ==
    /\ []C7_EmptyListIdle
    /\ (Len(urls) = 0 /\ mainPc = "join") ~> (mainPc = "finished")

\* C7 witness: main() has finished a run of three workers on an empty list.
C7_Witness ==
    /\ Len(urls) = 0
    /\ connections = 3
    /\ mainPc = "finished"
    /\ counter = 3

\* C8: when download() returns Ok, its task bar stands at the number of
\* bytes written to the file, and the file holds the body received.
C8_ProgressIsBytesWritten ==
    [][ \A w \in Workers :
          (pc[w] = "stream" /\ pc'[w] = "inc" /\ result'[index[w]] = "ok") =>
              /\ bar[w] = handle[w].pos
              /\ files[handle[w].name] = Body(index[w], bar[w]) ]_vars

\* The list indices whose URL resolves to the file name f.
Writers(f) == { i \in Indices : Filename(UrlAt(i)) = f }

\* C9: when exactly two tasks of a run resolve to the same file name and
\* both return Ok, the file holds at the end bytes of one of the two bodies
\* only, never a mixture (nor a hole left by the other task's truncation).
C9_NoMixture ==
    mainPc = "finished" =>
        \A f \in DOMAIN files :
            (Cardinality(Writers(f)) = 2 /\ \A i \in Writers(f) : result[i] = "ok") =>
                \E t \in Writers(f) :
                    \A k \in 1 .. Len(files[f]) : files[f][k][1] = t

\* C10: when download() returns an error out of the chunk loop, it has
\* written nothing more, the file is still there, and it holds exactly the
\* chunks the task bar has counted, in order.
C10_PartialFileKept ==
    [][ \A w \in Workers :
          (pc[w] = "stream" /\ pc'[w] = "inc" /\ result'[index[w]] = "err") =>
              /\ files' = files
              /\ handle[w].name \in DOMAIN files'
              /\ files'[handle[w].name] = Body(index[w], bar[w]) ]_vars

\* The list indices whose download() has returned.
Returned == { i \in Indices : result[i] # "none" }

\* C17: a worker claims index i, then download() for i returns, then the
\* main bar is advanced once for i, and only then the worker claims again.
\* So the main bar never counts more than the download() calls that have
\* returned, a transfer in progress has not been counted, and a worker that
\* is back at the loop head has counted its previous index.
C17_ClaimTransferIncOrder ==
    /\ main_bar <= Cardinality(Returned)
    /\ \A i \in Indices : incs[i] <= 1 /\ (incs[i] = 1 => i \in Returned)
    /\ \A w \in Workers :
          /\ pc[w] \in {"download", "stream"} =>
                (result[index[w]] = "none" /\ incs[index[w]] = 0)
          /\ pc[w] = "inc" =>
                (result[index[w]] # "none" /\ incs[index[w]] = 0)
          /\ (pc[w] \in {"acquire", "permit", "claim"} /\ index[w] # -1) =>
                (result[index[w]] # "none" /\ incs[index[w]] = 1)

\* C17 witness: a worker is about to claim again after its failed transfer
\* of index 0 has been counted, while the transfer of index 1 has returned
\* and is not counted yet.
C17_Witness ==
    /\ connections = 2
    /\ Len(urls) = 2
    /\ \E v, w \in Workers :
          /\ pc[v] = "claim" /\ index[v] = 0 /\ result[0] = "err" /\ incs[0] = 1
          /\ pc[w] = "inc" /\ index[w] = 1
    /\ main_bar = 1

\* The workers that hold an open output file.
OpenHandles == { w \in Workers : handle[w].open }

\* C18: an open file handle belongs to the one download() call of its worker
\* that is in progress past open(); a worker whose download() has returned
\* (with Ok, or with an error of send, open, write or the stream) holds no
\* open handle; at most N handles are open.
C18_HandleOwnedByTransfer ==
    /\ \A w \in Workers :
          /\ handle[w].open =>
                (pc[w] = "stream" /\ result[index[w]] = "none"
                 /\ handle[w].name = Filename(UrlAt(index[w])))
          /\ pc[w] # "stream" => handle[w] = ClosedHandle
    /\ \A v, w \in OpenHandles : index[v] = index[w] => v = w
    /\ Cardinality(OpenHandles) <= connections

\* C18 witness: one worker's download() has returned an error after its file
\* was opened, and it holds no handle while another worker's file is open.
C18_Witness ==
    \E v, w \in Workers :
        /\ pc[v] = "inc" /\ result[index[v]] = "err"
        /\ Filename(UrlAt(index[v])) \in DOMAIN files
        /\ ~handle[v].open
        /\ handle[w].open

\* C19: the claim cursor never exceeds M + N and, once main has joined all
\* N workers, equals M + N: every index below M was claimed once and each
\* worker made one claim at or above M.
C19_CursorReachesMPlusN ==
    /\ counter <= Len(urls) + connections
    /\ mainPc = "finished" => counter = Len(urls) + connections

\* C19 for a requested value of at least one connection.
C19_WithAWorker ==
    connections >= 1 => C19_CursorReachesMPlusN

\* C19, the cursor's steps: counter changes only by fetch_add(1).
C19_OnlyIncrements ==
    [][counter' = counter \/ counter' = counter + 1]_vars

\* C20: with a single worker the transfers run one at a time in increasing
\* index order: when download() is called for index j, every lower index
\* has returned and has been counted on the main bar.
C20_SingleWorkerInOrder ==
    connections = 1 =>
        /\ Cardinality(InProgress) <= 1
        /\ \A i, j \in Indices :
              (i < j /\ invoked[j] > 0) => (result[i] # "none" /\ incs[i] = 1)

\* C20 witness: with two workers and two list entries, index 1 has
\* completed and has been counted while index 0 is still being transferred.
C20_Witness ==
    /\ connections >= 2
    /\ Len(urls) >= 2
    /\ \E i \in Indices :
          /\ i + 1 \in Indices
          /\ result[i + 1] = "ok" /\ incs[i + 1] = 1
          /\ i \in InProgress

\* The worker count C14 states for a requested --connections value.
C14_Expected(c) == IF c <= ConnectionLimit THEN c ELSE DefaultConnections

\* C14 as stated: the number of workers is the requested value up to the
\* maximum of 10 and the default 2 above it, and no requested value makes
\* the program stop with an error.
C14_NoValueIsAnError ==
    /\ connections = C14_Expected(requested)
    /\ Cardinality(Workers) = connections
    /\ mainPc # "rejected"

\* C14 amended: for every requested value that parses as usize the number
\* of workers is the requested value up to the maximum of 10 and the default
\* 2 above it, the run is not rejected and main finishes; a value that does
\* not parse as usize is rejected by the argument validator and no worker
\* runs.
C14_ValidValueRuns ==
    /\ [](\A c \in 0 .. (ConnectionLimit + 1) :
             EffectiveConnections(c) = C14_Expected(c))
    /\ [](validate_natural_number(requested) =>
             /\ connections = C14_Expected(requested)
             /\ Cardinality(Workers) = connections
             /\ mainPc # "rejected")
    /\ [](~validate_natural_number(requested) =>
             (mainPc = "rejected" /\ Workers = {}))
    /\ (validate_natural_number(requested) ~> mainPc = "finished")

\* C14 witness: a run requested with 11 connections has finished with two
\* workers, which made both transfers of the list.
C14_Witness ==
    /\ requested = ConnectionLimit + 1
    /\ connections = DefaultConnections
    /\ Cardinality(Workers) = DefaultConnections
    /\ mainPc = "finished"
    /\ downloads = 2

\* The download() calls of the log whose request was sent.
Resolved == { k \in 1 .. Len(fn) : fn[k].op = "download" /\ fn[k].sent }

\* The last segment of segs that is not empty.
LastNonEmpty(segs) ==
    segs[CHOOSE k \in 1 .. Len(segs) :
            segs[k] # << >> /\ \A m \in (k + 1) .. Len(segs) : segs[m] = << >>]

\* C11: for a URL whose path has a non-empty segment, a trailing slash
\* included, the file name download() resolves is the percent-decoded last
\* non-empty path segment, and it is not empty.
C11_LastNonEmptySegment ==
    \A k \in Resolved :
        LET segs == path_segments(fn[k].url).val
        IN  (\E m \in 1 .. Len(segs) : segs[m] # << >>) =>
                /\ fn[k].ret.ok
                /\ fn[k].ret.val = decode_utf8_lossy(percent_decode_str(LastNonEmpty(segs)))
                /\ fn[k].ret.val # << >>

\* C11 as coded: the name is the decoded last segment, empty or not:
\* "/a/b" gives "b", "/%41" gives "A", "/n%C3%AF" gives "n" and U+00EF,
\* "/%FF" gives U+FFFD, "/%4" gives "%4", "/d/" and "" give the empty name.
C11_LastSegment ==
    \A k \in Resolved :
        LET p == Drop(fn[k].url, Len(HttpH))
            name == fn[k].ret.val
        IN  /\ fn[k].ret.ok
            /\ p = << 47, 97, 47, 98 >> => name = << 98 >>
            /\ p = << 47, 37, 52, 49 >> => name = << 65 >>
            /\ p = << 47, 110, 37, 67, 51, 37, 65, 70 >> => name = << 110, 239 >>
            /\ p = << 47, 37, 70, 70 >> => name = << ReplacementChar >>
            /\ p = << 47, 37, 52 >> => name = << 37, 52 >>
            /\ p = << 47, 100, 47 >> => name = << >>
            /\ p = << >> => name = << >>

\* C11 in the engine: the task of a URL that ends in "/" never gets its
\* file opened, so it never succeeds.
C11_TrailingSlashFails ==
    \A i \in Indices :
        Last(UrlAt(i)) = Slash => (result[i] # "ok" /\ << >> \notin DOMAIN files)

\* A name of decimal digits.
IsNumeric(name) == name # << >> /\ \A k \in 1 .. Len(name) : name[k] \in 48 .. 57

\* C12: for an address without a path segment ("http://h") download() uses
\* a synthesized name: the non-empty decimal number of the milliseconds the
\* clock shows.
C12_SynthesizedName ==
    \A k \in Resolved :
        (Drop(fn[k].url, Len(HttpH)) = << >> /\ fn[k].now >= 0) =>
            /\ fn[k].ret.ok
            /\ IsNumeric(fn[k].ret.val)
            /\ fn[k].ret.val = to_string(as_millis(fn[k].now))

\* C12 as coded: every URL whose request is sent has path segments, so the
\* None arm with gen_filename() is never taken.
C12_GenFilenameUnreached ==
    \A k \in Resolved : path_segments(ResponseUrl(fn[k].url)).some

C13_DistinctMillis ==
    \A i, j \in 1 .. Len(fn) :
        (/\ fn[i].op = "gen_filename" /\ fn[j].op = "gen_filename"
         /\ fn[i].ret.ok /\ fn[j].ret.ok)
        => /\ (fn[i].ret.val = fn[j].ret.val)
                <=> (as_millis(fn[i].now) = as_millis(fn[j].now))
           /\ IsNumeric(fn[i].ret.val)
           /\ (fn[i].now = 1998500000 => fn[i].ret.val = << 49, 57, 57, 56 >>)

\* The lines of a text: the pieces that end at a "\n", and what follows the
\* last "\n" if that is not empty.
C15_Lines(content) ==
    LET p == Split(content, LF)
    IN  IF Last(p) = << >> THEN SubSeq(p, 1, Len(p) - 1) ELSE p

\* A line without its trailing "\r".
C15_Strip(line) ==
    IF line # << >> /\ Last(line) = CR THEN SubSeq(line, 1, Len(line) - 1) ELSE line

\* The addresses C15 states for a file: its lines stripped, blank ones left
\* out.
C15_Expected(content) ==
    LET lines == C15_Lines(content)
        stripped == [ k \in 1 .. Len(lines) |-> C15_Strip(lines[k]) ]
    IN  SelectSeq(stripped, LAMBDA l : l # << >>)

\* C15: create_download_list_from_file returns, in file order, the lines of
\* the file without their trailing "\r" and "\n", blank lines left out: no
\* entry of the result is empty.
C15_BlankLinesSkipped ==
    (fn # << >> /\ LastCall.op = "list" /\ LastCall.file.exists) =>
        /\ LastCall.ret.ok
        /\ LastCall.ret.val = C15_Expected(LastCall.file.content)
        /\ \A k \in 1 .. Len(LastCall.ret.val) : LastCall.ret.val[k] # << >>

\* C15 as coded: one entry for every line read, blank ones included, each
\* with all its "\r" and "\n" removed; "A\r\n", "\n", "B\n" give "A", "",
\* "B"; a missing file gives Err.
C15_EveryLinePushed ==
    (fn # << >> /\ LastCall.op = "list") =>
        LET content == LastCall.file.content
            lines == C15_Lines(content)
        IN  IF LastCall.file.exists
            THEN /\ LastCall.ret.ok
                 /\ Len(LastCall.ret.val) = Len(lines)
                 /\ \A k \in 1 .. Len(lines) :
                       LastCall.ret.val[k] = SelectSeq(lines[k], LAMBDA b : b # CR)
                 /\ content = ThreeLines =>
                       LastCall.ret.val = << << 65 >>, << >>, << 66 >> >>
            ELSE ~LastCall.ret.ok

====
